---------------------------- MODULE Spec2Model ----------------------------
(***************************************************************************)
(* Order reconciliation of the EMA trailing bot (src/ema_bot.py,           *)
(* src/telegram_bot.py): the tracked-order store (orders.json), the        *)
(* exchange's order book as the bot sees it through BinanceClient, one     *)
(* reconciliation pass (EMATrailingBot.process_order), the two drivers     *)
(* (EMATrailingBot.run and the telegram job run_trailing_bot) and the      *)
(* operator's add / bind / remove commands.                                *)
(*                                                                         *)
(* Prices are integers; a tick is TickSize units.                          *)
(* Strings the code builds with f-strings are tuples of their parts.       *)
(* Gateway calls are modelled by their contract: each call either returns  *)
(* what the exchange state dictates or raises.  In src/ema_bot.py the      *)
(* function calculate_ema (line 304) is written at module level, so the    *)
(* attribute lookup self.client.calculate_ema at line 617 raises; that is  *)
(* the outcome gather = "raise" below, one of the outcomes a pass has.     *)
(***************************************************************************)
EXTENDS Integers, Sequences, FiniteSets, TLC

(***************************************************************************)
(* Bounds of the model.                                                    *)
(***************************************************************************)
\* orders the exchange ever accepts in one behaviour
MaxHandle == 2
\* records the operator keeps in orders.json at once
MaxStore == 2
\* failNotes counts up to NotesCap
NotesCap == 2
\* operator commands that arrive while a tick is in progress, per behaviour
MaxMidTick == 1

(***************************************************************************)
(* Program constants.                                                      *)
(***************************************************************************)
\* binance_order_id = None (src/ema_bot.py:117); order ids start at 1
None == 0
\* SUPPORTED_EMA, src/ema_bot.py:44
SUPPORTED_EMA == {21, 55, 100, 200}
\* MARKET_TYPES, src/ema_bot.py:60
MARKET_TYPES == {"spot", "futures"}
\* self.price_threshold = 0.003, as the fraction ThresholdNum / ThresholdDen
ThresholdNum == 3
ThresholdDen == 1000
\* tickSize of the PRICE_FILTER of the one instrument of the model
TickSize == 10

(***************************************************************************)
(* Inputs the operator and the market can supply.                          *)
(***************************************************************************)
SymbolInputs == {"btc"}
IntervalInputs == {"4h"}
\* intervals typed into the quick add and /bind: one that INTERVAL_MAP
\* knows, one it does not
TypedIntervals == {"4H", "7x"}
\* float(quantity) of the text typed into the quick add: "1", "-1"
TypedQuantities == {1, -1}
EmaInputs == {21, 7}
SideInputs == {"buy", "HOLD"}
MarketInputs == {"futures", "margin"}
AddQuantities == {1}
ManualQuantities == {2}
ManualSides == {"BUY"}
ManualPrices == {1020}
\* values calculate_ema can return: 0 is its "no data" result (0.0)
EmaValues == {0, 1002}

(***************************************************************************)
(* String helpers of add_order, src/ema_bot.py:85-98.                      *)
(***************************************************************************)
\* symbol.upper(), then + 'USDT' unless it already ends with it
NormSymbol(s) ==
    CASE s = "btc" -> "BTCUSDT"
      [] s = "BTC" -> "BTCUSDT"
      [] s = "btcusdt" -> "BTCUSDT"
      [] OTHER -> s

\* INTERVAL_MAP.get(interval.lower(), interval)
NormInterval(i) ==
    CASE i = "4H" -> "4h"
      [] i = "1D" -> "1d"
      [] i = "15min" -> "15m"
      [] OTHER -> i

\* side.upper()
UpperSide(s) ==
    CASE s = "buy" -> "BUY"
      [] s = "sell" -> "SELL"
      [] s = "hold" -> "HOLD"
      [] OTHER -> s

\* f"{market_prefix}_{symbol}_{interval}_EMA{ema}_{side}"
AddId(market_type, symbol, interval, ema, side) ==
    << IF market_type = "spot" THEN "SPOT" ELSE "FUT", symbol, interval, ema, side >>

\* f"{symbol}_{interval}_EMA{ema}_{side}"
BindId(symbol, interval, ema, side) == << symbol, interval, ema, side >>

VARIABLES
    store,      \* orders.json: the list of tracked-order records
    exch,       \* the exchange's orders, exch[h] the order with orderId h
    driver,     \* which driver runs the passes: "run" or "telegram"
    queue,      \* active_orders of the tick in progress, not yet processed
    last,       \* the latest command or pass and its outcome (observation)
    failNotes,  \* per id, failure messages sent since its last successful pass
    midTick,    \* operator commands that have arrived during a tick so far
    watch,      \* what last and failNotes record in this behaviour
    inflight,   \* the update_order call that has loaded the list and not yet
                \* saved it: [orders, id, kw], or << >>
    app         \* the driver process: [alive, bot_running, trailing_jobs, post_init]

vars == << store, exch, driver, queue, last, failNotes, midTick, watch, inflight, app >>

(***************************************************************************)
(* OrderManager, src/ema_bot.py:63-165.                                    *)
(***************************************************************************)
Ids(orders) == { orders[i].id : i \in 1..Len(orders) }

HasId(orders, id) == \E i \in 1..Len(orders) : orders[i].id = id

\* the first record with this id (the loops at 106, 150 and 244 stop there)
FirstIdx(orders, id) ==
    CHOOSE i \in 1..Len(orders) :
        /\ orders[i].id = id
        /\ \A j \in 1..(i - 1) : orders[j].id # id

\* for key, value in kwargs.items(): o[key] = value
Assign(o, kw) == [ k \in DOMAIN o |-> IF k \in DOMAIN kw THEN kw[k] ELSE o[k] ]

\* the list update_order saves: the first record with the id changed, or
\* the list as loaded when no record has the id
Updated(orders, id, kw) ==
    IF HasId(orders, id)
    THEN [ orders EXCEPT ![FirstIdx(orders, id)] = Assign(@, kw) ]
    ELSE orders

\* new_orders of remove_order
Without(orders, id) == SelectSeq(orders, LAMBDA o : o.id # id)

\* new_order of add_order
NewOrder(id, symbol, interval, ema, side, quantity, market_type) ==
    [ id |-> id, symbol |-> symbol, interval |-> interval, ema |-> ema,
      side |-> side, quantity |-> quantity, binance_order_id |-> None,
      status |-> "active", market_type |-> market_type,
      notified_error |-> FALSE, bound |-> FALSE ]

\* new_order of bind_order_to_tracking; it has no market_type and no
\* notified_error key, which every reader takes as 'futures' and False
BoundOrder(id, symbol, interval, ema, side, quantity, order_id) ==
    [ id |-> id, symbol |-> symbol, interval |-> interval, ema |-> ema,
      side |-> side, quantity |-> quantity, binance_order_id |-> order_id,
      status |-> "active", market_type |-> "futures",
      notified_error |-> FALSE, bound |-> TRUE ]

\* add_order without its loop over the existing ids (lines 106-108)
AddVerdictNoDuplicateCheck(orders, ema, side, market_type, id) ==
    CASE ema \notin SUPPORTED_EMA -> "bad_ema"
      [] side \notin {"BUY", "SELL"} -> "bad_side"
      [] market_type \notin MARKET_TYPES -> "bad_market"
      [] OTHER -> "ok"

\* add_order's checks in the order of the code: "ok" or the ValueError
AddVerdict(orders, ema, side, market_type, id) ==
    CASE ema \notin SUPPORTED_EMA -> "bad_ema"
      [] side \notin {"BUY", "SELL"} -> "bad_side"
      [] market_type \notin MARKET_TYPES -> "bad_market"
      [] HasId(orders, id) -> "duplicate"
      [] OTHER -> "ok"


(***************************************************************************)
(* The exchange as BinanceClient shows it, src/ema_bot.py:248-286 and      *)
(* 444-587.  An order is [status, price, side, qty, owner]: owner is the   *)
(* tracking id process_order placed it for, << >> for an order the         *)
(* operator placed by hand.                                                *)
(***************************************************************************)
\* stepSize of the LOT_SIZE filter of the one instrument of the model
StepSize == 1

\* format_price: price = (price // tick_size) * tick_size
FormatPrice(price) == (price \div TickSize) * TickSize

\* format_quantity: quantity = (quantity // step_size) * step_size
FormatQuantity(quantity) == (quantity \div StepSize) * StepSize

\* get_open_orders: the orderIds of the orders still open
OpenOrders(ex) == { h \in 1..Len(ex) : ex[h].status = "NEW" }

\* the order a successful create_order leaves on the exchange
PlacedOrder(cfg, price) ==
    [ status |-> "NEW", price |-> FormatPrice(price), side |-> cfg.side,
      qty |-> FormatQuantity(cfg.quantity), owner |-> cfg.id ]

\* price_diff > self.price_threshold, with
\* price_diff = abs(order_price - ema_price) / ema_price  (ema_price > 0)
Abs(x) == IF x < 0 THEN -x ELSE x

\* the test with >= in place of >
ExceedsOrMeetsThreshold(order_price, ema_price) ==
    Abs(order_price - ema_price) * ThresholdDen >= ThresholdNum * ema_price

ExceedsThreshold(order_price, ema_price) ==
    Abs(order_price - ema_price) * ThresholdDen > ThresholdNum * ema_price

(***************************************************************************)
(* One pass, EMATrailingBot.process_order, src/ema_bot.py:597-758.         *)
(* A pass works on a context c: the store and exchange as the pass has     *)
(* left them so far, the messages it has sent, the gateway calls it has    *)
(* made, and whether an exception is propagating (raised).  ch holds what  *)
(* the environment decides during the pass:                                *)
(*   gather    "raise" when computing the inputs (617-620) raises          *)
(*   ema       the value calculate_ema returns                             *)
(*   mid       what happens to the bound order between the open-orders     *)
(*             fetch and the cancel call: "none", "fill" or "cancel"       *)
(*   cancelOut "ok", or "error": cancel_order raises without effect        *)
(*   statusOut "ok", or "none": get_order_status returns None              *)
(*   placeOut  "ok"; "fail": create_order raises, nothing placed;          *)
(*             "landed": the order is placed but create_order raises       *)
(*   wfail     which save_orders calls of the pass raise: "none", "first"  *)
(*             (only the first one) or "all"                               *)
(***************************************************************************)
Context(st, ex) ==
    [ store |-> st, exch |-> ex, w |-> 0, raised |-> FALSE, result |-> "none",
      fail |-> 0, fill |-> 0, created |-> 0, updated |-> 0,
      place |-> 0, cancel |-> 0, delivered |-> 0 ]

\* send_telegram_message without its try/except: a failed delivery raises
NoteRaising(c, ch, kind) ==
    [ c EXCEPT ![kind] = @ + 1,
               !.delivered = @ + (IF ch.notify = "ok" THEN 1 ELSE 0),
               !.raised = @ \/ ch.notify = "fail" ]

\* send_telegram_message(...), counted by the kind of event it reports; a
\* failed delivery is printed and returns False (lines 34-37), and no
\* caller reads the value returned
Note(c, ch, kind) ==
    [ c EXCEPT ![kind] = @ + 1,
               !.delivered = @ + (IF ch.notify = "ok" THEN 1 ELSE 0) ]

Return(c, result) == [ c EXCEPT !.result = result ]

WriteFails(ch, i) == ch.wfail = "all" \/ (ch.wfail = "first" /\ i = 1)

\* OrderManager.save_orders(orders): replaces the file, or raises
SaveOrders(c, ch, orders) ==
    IF WriteFails(ch, c.w + 1)
    THEN [ c EXCEPT !.w = @ + 1, !.raised = TRUE ]
    ELSE [ c EXCEPT !.w = @ + 1, !.store = orders ]

\* OrderManager.update_order: saves even when no record has the id
UpdateOrder(c, ch, id, kw) == SaveOrders(c, ch, Updated(c.store, id, kw))

\* OrderManager.set_notified
SetNotified(c, ch, id, notified) ==
    UpdateOrder(c, ch, id, [ notified_error |-> notified ])

\* OrderManager.update_binance_order_id
UpdateBinanceOrderId(c, ch, id, h) ==
    UpdateOrder(c, ch, id, [ binance_order_id |-> h ])

\* OrderManager.remove_order: saves only when a record was dropped
RemoveOrder(c, ch, id) ==
    IF Len(Without(c.store, id)) < Len(c.store)
    THEN SaveOrders(c, ch, Without(c.store, id))
    ELSE c

\* get_order_status(...).get('status'), "UNKNOWN" when the lookup returns None
OrderStatus(c, ch, h) ==
    IF ch.statusOut = "ok" /\ h \in 1..Len(c.exch) THEN c.exch[h].status ELSE "UNKNOWN"

\* the exchange accepts a limit order only at a positive price
Lands(c, ch, price) ==
    /\ ch.placeOut \in {"ok", "landed"}
    /\ FormatPrice(price) > 0

\* client.create_order(...): the context after the call; raised when it raised
CreateOrder(c, cfg, ch, price) ==
    LET called == [ c EXCEPT !.place = @ + 1 ]
        placed == [ called EXCEPT !.exch = Append(@, PlacedOrder(cfg, price)) ]
    IN  CASE Lands(c, ch, price) /\ ch.placeOut = "ok" -> placed
          [] Lands(c, ch, price) -> [ placed EXCEPT !.raised = TRUE ]
          [] OTHER -> [ called EXCEPT !.raised = TRUE ]

\* the outer handler also forgetting the handle, as the Replace's does
OuterExceptUnbinding(c, cfg, ch) ==
    LET caught == Return([ c EXCEPT !.raised = FALSE ], "error")
        told == IF ~cfg.notified_error
                THEN SetNotified(Note(caught, ch, "fail"), ch, cfg.id, TRUE)
                ELSE caught
    IN  IF told.raised THEN told ELSE UpdateBinanceOrderId(told, ch, cfg.id, None)

\* except Exception as e, lines 750-758
OuterExcept(c, cfg, ch) ==
    LET caught == Return([ c EXCEPT !.raised = FALSE ], "error")
    IN  IF ~cfg.notified_error
        THEN SetNotified(Note(caught, ch, "fail"), ch, cfg.id, TRUE)
        ELSE caught

\* the create handler sending the place request a second time
CreateExceptRetrying(c, cfg, ch) ==
    LET again == CreateOrder([ c EXCEPT !.raised = FALSE ], cfg, ch, ch.ema)
    IN  Return([ again EXCEPT !.raised = FALSE ], "create_failed")

\* except Exception as create_err, lines 736-748
CreateExcept(c, cfg, ch) ==
    LET caught == [ c EXCEPT !.raised = FALSE ]
        told == IF ~cfg.notified_error
                THEN SetNotified(Note(caught, ch, "fail"), ch, cfg.id, TRUE)
                ELSE caught
    IN  IF told.raised THEN told ELSE Return(told, "create_failed")

\* the Create storing the flag and not the handle of the new order
CreateForgettingHandle(c, cfg, ch) ==
    LET made == CreateOrder(c, cfg, ch, ch.ema)
        saved == UpdateOrder(made, ch, cfg.id, [ notified_error |-> FALSE ])
    IN  CASE made.raised -> CreateExcept(made, cfg, ch)
          [] saved.raised -> CreateExcept(saved, cfg, ch)
          [] OTHER -> Return(Note(saved, ch, "created"), "created")

\* lines 713-748: create a new order at the target
Create(c, cfg, ch) ==
    LET made == CreateOrder(c, cfg, ch, ch.ema)
        saved == UpdateOrder(made, ch, cfg.id,
                     [ binance_order_id |-> Len(made.exch), notified_error |-> FALSE ])
    IN  CASE made.raised -> CreateExcept(made, cfg, ch)
          [] saved.raised -> CreateExcept(saved, cfg, ch)
          [] OTHER -> Return(Note(saved, ch, "created"), "created")

\* the missing branch treating every status but FILLED as an error
MissingReportsError(c, cfg, ch) ==
    IF cfg.binance_order_id # None
          /\ OrderStatus(c, ch, cfg.binance_order_id) = "FILLED"
    THEN LET gone == RemoveOrder(Note(c, ch, "fill"), ch, cfg.id)
         IN  IF gone.raised THEN gone ELSE Return(gone, "filled")
    ELSE IF cfg.binance_order_id # None
         THEN [ c EXCEPT !.raised = TRUE ]
         ELSE Create(c, cfg, ch)

\* lines 700-748: the bound order is not among the open orders
Missing(c, cfg, ch) ==
    IF cfg.binance_order_id # None
          /\ OrderStatus(c, ch, cfg.binance_order_id) = "FILLED"
    THEN LET gone == RemoveOrder(Note(c, ch, "fill"), ch, cfg.id)
         IN  IF gone.raised THEN gone ELSE Return(gone, "filled")
    ELSE Create(c, cfg, ch)

\* except Exception as create_err, lines 681-694
ReplaceExcept(c, cfg, ch) ==
    LET caught == [ c EXCEPT !.raised = FALSE ]
        told == IF ~cfg.notified_error
                THEN SetNotified(Note(caught, ch, "fail"), ch, cfg.id, TRUE)
                ELSE caught
        cleared == UpdateBinanceOrderId(told, ch, cfg.id, None)
    IN  CASE told.raised -> told
          [] cleared.raised -> cleared
          [] OTHER -> Return(cleared, "replace_failed")

\* the cancel handler clearing the handle before it reports the failure
CancelExceptClearing(c, cfg, ch, unknown_order) ==
    LET caught == [ c EXCEPT !.raised = FALSE ]
        cleared == UpdateBinanceOrderId(caught, ch, cfg.id, None)
    IN  IF cleared.raised THEN cleared ELSE Return(cleared, "cancel_failed")

\* except Exception as cancel_err, lines 640-649
CancelExcept(c, cfg, ch, unknown_order) ==
    LET caught == [ c EXCEPT !.raised = FALSE ]
    IN  IF unknown_order /\ OrderStatus(caught, ch, cfg.binance_order_id) = "FILLED"
        THEN LET gone == RemoveOrder(caught, ch, cfg.id)
             IN  IF gone.raised THEN gone ELSE Return(Note(gone, ch, "fill"), "filled")
        ELSE Return(caught, "cancel_failed")

\* what the exchange does to the bound order while the pass runs (ch.mid)
MidChange(c, cfg, ch) ==
    CASE ch.mid = "fill" -> [ c EXCEPT !.exch[cfg.binance_order_id].status = "FILLED" ]
      [] ch.mid = "cancel" -> [ c EXCEPT !.exch[cfg.binance_order_id].status = "CANCELED" ]
      [] OTHER -> c

\* the Replace storing the flag and not the new handle
ReplaceKeepingHandle(c, cfg, ch) ==
    LET h == cfg.binance_order_id
        m == MidChange(c, cfg, ch)
        called == [ m EXCEPT !.cancel = @ + 1 ]
        cancelled == [ called EXCEPT !.exch[h].status = "CANCELED" ]
        made == CreateOrder(cancelled, cfg, ch, ch.ema)
        saved == UpdateOrder(made, ch, cfg.id, [ notified_error |-> FALSE ])
    IN  CASE m.exch[h].status # "NEW" -> CancelExcept(called, cfg, ch, TRUE)
          [] ch.cancelOut # "ok" -> CancelExcept(called, cfg, ch, FALSE)
          [] made.raised -> ReplaceExcept(made, cfg, ch)
          [] saved.raised -> ReplaceExcept(saved, cfg, ch)
          [] OTHER -> Return(Note(saved, ch, "updated"), "updated")

\* lines 633-694: cancel the old order, then create the new one
Replace(c, cfg, ch) ==
    LET h == cfg.binance_order_id
        m == MidChange(c, cfg, ch)
        called == [ m EXCEPT !.cancel = @ + 1 ]
        cancelled == [ called EXCEPT !.exch[h].status = "CANCELED" ]
        made == CreateOrder(cancelled, cfg, ch, ch.ema)
        saved == UpdateOrder(made, ch, cfg.id,
                     [ binance_order_id |-> Len(made.exch), notified_error |-> FALSE ])
    IN  CASE m.exch[h].status # "NEW" -> CancelExcept(called, cfg, ch, TRUE)
          [] ch.cancelOut # "ok" -> CancelExcept(called, cfg, ch, FALSE)
          [] made.raised -> ReplaceExcept(made, cfg, ch)
          [] saved.raised -> ReplaceExcept(saved, cfg, ch)
          [] OTHER -> Return(Note(saved, ch, "updated"), "updated")

\* the open branch without the threshold test of line 633
OpenAlwaysReplaces(c, cfg, ch) ==
    IF ch.ema = 0 THEN [ c EXCEPT !.raised = TRUE ] ELSE Replace(c, cfg, ch)

\* lines 629-698: the bound order is open
Open(c, cfg, ch) ==
    LET order_price == c.exch[cfg.binance_order_id].price
    IN  CASE ch.ema = 0 -> [ c EXCEPT !.raised = TRUE ]
          [] ExceedsThreshold(order_price, ch.ema) -> Replace(c, cfg, ch)
          [] cfg.notified_error ->
                LET reset == SetNotified(c, ch, cfg.id, FALSE)
                IN  IF reset.raised THEN reset ELSE Return(reset, "within")
          [] OTHER -> Return(c, "within")

\* our_order is not None, lines 621-629
OurOrder(ex, cfg) ==
    cfg.binance_order_id # None /\ cfg.binance_order_id \in OpenOrders(ex)

\* process_order: the context when it returns; raised when an exception
\* leaves it
ProcessOrder(st, ex, cfg, ch) ==
    LET c == Context(st, ex)
        body == CASE ch.gather = "raise" -> [ c EXCEPT !.raised = TRUE ]
                  [] OurOrder(ex, cfg) -> Open(c, cfg, ch)
                  [] OTHER -> Missing(c, cfg, ch)
    IN  IF body.raised THEN OuterExcept(body, cfg, ch) ELSE body

(***************************************************************************)
(* What the environment can decide during a pass on cfg.                   *)
(***************************************************************************)
WriteFaults == {"none", "first", "all"}

\* the exchange of the model accepts MaxHandle orders in all
PlaceOuts(ex) == IF Len(ex) < MaxHandle THEN {"ok", "fail", "landed"} ELSE {"fail"}

Quiet == [ gather |-> "ok", ema |-> 0, mid |-> "none", cancelOut |-> "ok",
           statusOut |-> "ok", placeOut |-> "fail", wfail |-> "none",
           notify |-> "ok" ]

\* the decisions the branch taken for this ema consults
BranchChoices(ex, cfg, ema) ==
    LET q == [ Quiet EXCEPT !.ema = ema ]
    IN  CASE OurOrder(ex, cfg) /\ ema # 0
                 /\ ExceedsThreshold(ex[cfg.binance_order_id].price, ema) ->
                { [ q EXCEPT !.mid = m, !.statusOut = s, !.wfail = w ] :
                      m \in {"fill", "cancel"}, s \in {"ok", "none"}, w \in WriteFaults }
                \cup { [ q EXCEPT !.cancelOut = "error" ] }
                \cup { [ q EXCEPT !.placeOut = p, !.wfail = w ] :
                      p \in PlaceOuts(ex), w \in WriteFaults }
          [] OurOrder(ex, cfg) ->
                { [ q EXCEPT !.wfail = w ] : w \in WriteFaults }
          [] OTHER ->
                { [ q EXCEPT !.statusOut = s, !.placeOut = p, !.wfail = w ] :
                      s \in (IF cfg.binance_order_id # None THEN {"ok", "none"} ELSE {"ok"}),
                      p \in PlaceOuts(ex), w \in WriteFaults }

\* every message of the pass is delivered, or the delivery of each fails
Deliveries == {"ok", "fail"}

\* the decisions of a pass when calculate_ema returns one of emas
ChoicesAt(ex, cfg, emas) ==
    { [ q EXCEPT !.notify = n ] :
          q \in { [ Quiet EXCEPT !.gather = "raise", !.wfail = w ] : w \in WriteFaults }
                    \cup UNION { BranchChoices(ex, cfg, ema) : ema \in emas },
          n \in Deliveries }

PassChoices(ex, cfg) == ChoicesAt(ex, cfg, EmaValues)

(***************************************************************************)
(* The drivers: EMATrailingBot.run, src/ema_bot.py:769-790, and            *)
(* run_trailing_bot, src/telegram_bot.py:631-692.                          *)
(***************************************************************************)
\* the list as loaded, without the status filter
AllOrders(orders) == orders

\* active_orders = [o for o in orders if o.get('status') == 'active']
ActiveOrders(orders) == SelectSeq(orders, LAMBDA o : o.status = "active")

\* any(keyword in result for keyword in important_keywords): the results
\* "🎉 已成交", "⚠️ 取消失败", "❌ 创建失败", "❌ 失败" and "❌ 错误" hold a
\* keyword; "📝 a→b", "✓ x%" and "📌 @ p" hold none
Important(result) ==
    result \in {"filled", "cancel_failed", "replace_failed", "create_failed", "error"}

FailureResults == {"cancel_failed", "replace_failed", "create_failed", "error"}

\* messages about a failure of this id sent during the pass: those of
\* process_order, the telegram driver's message for an important failing
\* result (655-662) and its message for an exception (671-678)
FailureNotes(d, c) ==
    c.fail + (IF d = "telegram" /\ (c.raised \/ c.result \in FailureResults)
              THEN 1 ELSE 0)

\* messages about the fill of this id sent during the pass
FillNotes(d, c) ==
    c.fill + (IF d = "telegram" /\ ~c.raised /\ c.result = "filled" THEN 1 ELSE 0)

\* the orders of the tick left to process after this pass: run's try spans
\* the whole for loop (770-788), run_trailing_bot's spans one order (648-680)
Remaining(d, q, c) == IF d = "run" /\ c.raised THEN << >> ELSE Tail(q)

SuccessResults == {"created", "updated", "within"}

Min(a, b) == IF a < b THEN a ELSE b

(***************************************************************************)
(* The operator's commands.                                                *)
(***************************************************************************)
\* every tracking id the inputs of the model can form
AllIds ==
    { AddId(m, NormSymbol(s), NormInterval(i), e, UpperSide(sd)) :
          m \in MarketInputs, s \in SymbolInputs,
          i \in IntervalInputs \cup TypedIntervals,
          e \in EmaInputs, sd \in SideInputs }
    \cup { BindId(NormSymbol(s), NormInterval(i), e, sd) :
          s \in SymbolInputs, i \in IntervalInputs \cup TypedIntervals,
          e \in EmaInputs, sd \in {"BUY", "SELL"} }

Did(op, id, result) == [ op |-> op, id |-> id, result |-> result, again |-> FALSE ]

Unwatched == Did("other", << >>, "none")

\* last after a step of this kind ("cmd": an operator command, "pass": a pass)
Observed(kind, seen) == IF kind \in watch THEN seen ELSE Unwatched

\* an operator command runs between two ticks, or is one of the MaxMidTick
\* commands that arrive between two passes of a tick
Arrives ==
    /\ queue # << >> => midTick < MaxMidTick
    /\ midTick' = IF queue # << >> THEN midTick + 1 ELSE midTick

\* add_order appending and saving before it validates
AddOrderUnchecked(orders, symbol, interval, ema, side, quantity, market_type) ==
    Append(orders, NewOrder(AddId(market_type, symbol, interval, ema, side),
                            symbol, interval, ema, side, quantity, market_type))

\* the list add_order leaves in orders.json, src/ema_bot.py:79-129
AddOrder(orders, symbol, interval, ema, side, quantity, market_type) ==
    LET id == AddId(market_type, symbol, interval, ema, side)
    IN  IF AddVerdict(orders, ema, side, market_type, id) = "ok"
        THEN Append(orders, NewOrder(id, symbol, interval, ema, side, quantity, market_type))
        ELSE orders

Add(s, i, ema, sd, quantity, market_type) ==
    LET symbol == NormSymbol(s)
        interval == NormInterval(i)
        side == UpperSide(sd)
        id == AddId(market_type, symbol, interval, ema, side)
        verdict == AddVerdict(store, ema, side, market_type, id)
    IN  /\ Arrives
        /\ verdict = "ok" => Len(store) < MaxStore
        /\ store' = AddOrder(store, symbol, interval, ema, side, quantity, market_type)
        /\ last' = Observed("cmd", Did("add", IF verdict = "ok" THEN id ELSE << >>, verdict))
        /\ failNotes' = IF verdict = "ok" THEN [ failNotes EXCEPT ![id] = 0 ] ELSE failNotes
        /\ UNCHANGED << exch, driver, queue, watch, inflight, app >>

\* what bind_order_to_tracking reports, src/telegram_bot.py:243-262
BindVerdict(orders, id) == IF HasId(orders, id) THEN "rebound" ELSE "bound"

\* bind_order_to_tracking leaving an existing record as it is
BindOrderRejecting(orders, ex, h, symbol, interval, ema) ==
    LET side == ex[h].side
        tracking_id == BindId(symbol, interval, ema, side)
    IN  IF HasId(orders, tracking_id)
        THEN orders
        ELSE Append(orders,
                    BoundOrder(tracking_id, symbol, interval, ema, side, ex[h].qty, h))

\* the list bind_order_to_tracking leaves in orders.json,
\* src/telegram_bot.py:234-278, for the open order h
BindOrder(orders, ex, h, symbol, interval, ema) ==
    LET side == ex[h].side
        quantity == ex[h].qty
        tracking_id == BindId(symbol, interval, ema, side)
    IN  IF HasId(orders, tracking_id)
        THEN Updated(orders, tracking_id,
                     [ binance_order_id |-> h, quantity |-> quantity ])
        ELSE Append(orders,
                    BoundOrder(tracking_id, symbol, interval, ema, side, quantity, h))

\* /bind with one open order (cmd_bind, 213-215) or the button of one of
\* several (bind_callback, 319-330)
Bind(h, s, i, ema) ==
    LET symbol == NormSymbol(s)
        interval == NormInterval(i)
        id == BindId(symbol, interval, ema, exch[h].side)
    IN  /\ Arrives
        /\ h \in OpenOrders(exch)
        /\ ema \in SUPPORTED_EMA
        /\ ~HasId(store, id) => Len(store) < MaxStore
        /\ store' = BindOrder(store, exch, h, symbol, interval, ema)
        /\ last' = Observed("cmd", Did("bind", id, BindVerdict(store, id)))
        /\ failNotes' = IF HasId(store, id) THEN failNotes ELSE [ failNotes EXCEPT ![id] = 0 ]
        /\ UNCHANGED << exch, driver, queue, watch, inflight, app >>

\* /bind rejected: the EMA is not supported (196-198) or the symbol has no
\* open order (206-211)
BindRejected(ema) ==
    /\ ema \notin SUPPORTED_EMA \/ OpenOrders(exch) = {}
    /\ UNCHANGED vars

\* the exchange after do_remove_order's cancel calls, src/telegram_bot.py:577-583
\* (cmd_remove, src/ema_bot.py:839-848, is the same); a failing cancel is ignored
CancelBound(ex, orders, id, cancel_ok) ==
    [ h \in 1..Len(ex) |->
        IF /\ cancel_ok
           /\ ex[h].status = "NEW"
           /\ \E k \in 1..Len(orders) :
                  orders[k].id = id /\ orders[k].binance_order_id = h
        THEN [ ex[h] EXCEPT !.status = "CANCELED" ]
        ELSE ex[h] ]

Remove(id, cancel_ok) ==
    /\ Arrives
    /\ exch' = CancelBound(exch, store, id, cancel_ok)
    /\ store' = Without(store, id)
    /\ last' = Observed("cmd", IF HasId(store, id) THEN Did("remove", id, "removed")
                                ELSE Did("remove", << >>, "absent"))
    /\ UNCHANGED << driver, queue, failNotes, watch, inflight, app >>

(***************************************************************************)
(* The exchange outside the bot: the operator places or cancels an order   *)
(* by hand, an open order fills.                                           *)
(***************************************************************************)
ManualPlace(side, price, qty) ==
    /\ Len(exch) < MaxHandle
    /\ exch' = Append(exch, [ status |-> "NEW", price |-> price, side |-> side,
                              qty |-> qty, owner |-> << >> ])
    /\ last' = Unwatched
    /\ UNCHANGED << store, driver, queue, failNotes, midTick, watch, inflight, app >>

Fill(h) ==
    /\ h \in OpenOrders(exch)
    /\ exch' = [ exch EXCEPT ![h].status = "FILLED" ]
    /\ last' = Unwatched
    /\ UNCHANGED << store, driver, queue, failNotes, midTick, watch, inflight, app >>

ManualCancel(h) ==
    /\ h \in OpenOrders(exch)
    /\ exch' = [ exch EXCEPT ![h].status = "CANCELED" ]
    /\ last' = Unwatched
    /\ UNCHANGED << store, driver, queue, failNotes, midTick, watch, inflight, app >>

(***************************************************************************)
(* A tick of the driver and the passes of the tick.                        *)
(***************************************************************************)
\* the driver process once it runs its loop: run's while True, or the
\* application after post_init (src/telegram_bot.py:738-761)
Running ==
    [ alive |-> TRUE, bot_running |-> TRUE, trailing_jobs |-> 1, post_init |-> TRUE ]

\* a driver that an exception leaving process_order ends
DiesOnException(d, c) == ~c.raised

\* whether the driver goes on after this pass: run catches Exception around
\* the loop (src/ema_bot.py:787-788), run_trailing_bot around each order
\* (src/telegram_bot.py:669-680)
Survives(d, c) == TRUE

\* the driver may start a tick: the loop runs; for the telegram driver a
\* trailing_job is scheduled and bot_running is set (635-636)
Scheduled ==
    /\ app.alive
    /\ driver = "telegram" => (app.bot_running /\ app.trailing_jobs > 0)

\* orders = OrderManager.load_orders(); active_orders = [...]; when
\* load_orders raises the driver's handler ends the tick (787-788, 682-692)
Tick ==
    /\ queue = << >>
    /\ inflight = << >>
    /\ Scheduled
    /\ \E loads \in BOOLEAN :
          /\ queue' = IF loads THEN ActiveOrders(store) ELSE << >>
          /\ last' = IF "tick" \in watch
                     THEN Did("tick", << >>, IF loads THEN "loaded" ELSE "load_failed")
                     ELSE last
    /\ UNCHANGED << store, exch, driver, failNotes, midTick, watch, inflight, app >>

\* result = process_order(order) and what the driver does with it
PassAt(emas) ==
    /\ queue # << >>
    /\ inflight = << >>
    /\ app.alive
    /\ \E ch \in ChoicesAt(exch, Head(queue), emas) :
          LET cfg == Head(queue)
              c == ProcessOrder(store, exch, cfg, ch)
              rest == Remaining(driver, queue, c)
              result == IF c.raised THEN "escaped" ELSE c.result
          IN  /\ store' = c.store
              /\ exch' = c.exch
              /\ queue' = rest
              /\ last' = Observed("pass",
                            [ op |-> "pass", id |-> cfg.id, result |-> result,
                              again |-> last.op = "pass" /\ last.id = cfg.id
                                           /\ last.result = result ])
              /\ failNotes' =
                    IF "notes" \in watch
                    THEN [ failNotes EXCEPT ![cfg.id] =
                             IF result \in SuccessResults THEN 0
                             ELSE Min(NotesCap, @ + FailureNotes(driver, c)) ]
                    ELSE failNotes
              /\ app' = [ app EXCEPT !.alive = Survives(driver, c) ]
    /\ UNCHANGED << driver, midTick, watch, inflight >>

Pass == PassAt(EmaValues)

Init(watched) ==
    /\ watch = watched
    /\ store = << >>
    /\ exch = << >>
    /\ driver \in {"run", "telegram"}
    /\ queue = << >>
    /\ last = Unwatched
    /\ failNotes = [ id \in AllIds |-> 0 ]
    /\ midTick = 0
    /\ inflight = << >>
    /\ app = Running

Next ==
    \/ \E s \in SymbolInputs, i \in IntervalInputs, ema \in EmaInputs,
          sd \in SideInputs, q \in AddQuantities, m \in MarketInputs :
              Add(s, i, ema, sd, q, m)
    \/ \E h \in 1..MaxHandle, s \in SymbolInputs, i \in IntervalInputs, ema \in EmaInputs :
              Bind(h, s, i, ema)
    \/ \E ema \in EmaInputs : BindRejected(ema)
    \/ \E id \in AllIds, ok \in BOOLEAN : Remove(id, ok)
    \/ \E sd \in ManualSides, p \in ManualPrices, q \in ManualQuantities :
              ManualPlace(sd, p, q)
    \/ \E h \in 1..MaxHandle : Fill(h)
    \/ \E h \in 1..MaxHandle : ManualCancel(h)
    \/ Tick
    \/ Pass

\* passes observed
InitPasses == Init({"pass"})

Spec == InitPasses /\ [][Next]_vars

\* operator commands observed
InitCommands == Init({"cmd"})

SpecCommands == InitCommands /\ [][Next]_vars

\* failure messages counted
InitNotes == Init({"notes"})

SpecNotes == InitNotes /\ [][Next]_vars

(***************************************************************************)
(* The ticks of a driver, with its scheduling: run's while True loop        *)
(* sleeps and starts over (769-790), the job queue calls run_trailing_bot   *)
(* every 60 s; a pass that has started runs to its end.                     *)
(***************************************************************************)
\* the operator edits orders.json by hand and pauses a record; /list shows
\* such a record with its own icon (src/telegram_bot.py:537)
Retire(id) ==
    /\ Arrives
    /\ HasId(store, id)
    /\ store[FirstIdx(store, id)].status = "active"
    /\ store' = Updated(store, id, [ status |-> "paused" ])
    /\ last' = Observed("cmd", Did("retire", id, "paused"))
    /\ UNCHANGED << exch, driver, queue, failNotes, watch, inflight, app >>

NextTicks ==
    \/ \E s \in SymbolInputs, i \in IntervalInputs, ema \in EmaInputs,
          sd \in SideInputs, q \in AddQuantities, m \in MarketInputs :
              Add(s, i, ema, sd, q, m)
    \/ \E h \in 1..MaxHandle, s \in SymbolInputs, i \in IntervalInputs, ema \in EmaInputs :
              Bind(h, s, i, ema)
    \/ \E sd \in ManualSides, p \in ManualPrices, q \in ManualQuantities :
              ManualPlace(sd, p, q)
    \/ \E id \in AllIds, ok \in BOOLEAN : Remove(id, ok)
    \/ \E id \in AllIds : Retire(id)
    \/ Tick
    \/ Pass

\* ticks and passes observed
InitTicks == Init({"tick", "pass"})

SpecTicks == InitTicks /\ [][NextTicks]_vars /\ WF_vars(Tick) /\ WF_vars(Pass)

(***************************************************************************)
(* update_order in its two steps, load_orders() at line 149 and            *)
(* save_orders(orders) at line 155, with the operator working on            *)
(* orders.json from another process in between (python ema_bot.py remove,   *)
(* or the telegram bot beside python ema_bot.py run).  The call taken is    *)
(* set_notified(order_id, True) of the handler at 750-758, in a pass whose   *)
(* gathering of inputs raised.                                              *)
(***************************************************************************)
UpdateLoads ==
    /\ queue # << >>
    /\ inflight = << >>
    /\ app.alive
    /\ ~Head(queue).notified_error
    /\ inflight' = [ orders |-> store, id |-> Head(queue).id,
                     kw |-> [ notified_error |-> TRUE ] ]
    /\ UNCHANGED << store, exch, driver, queue, last, failNotes, midTick, watch, app >>

UpdateSaves ==
    /\ inflight # << >>
    /\ store' = Updated(inflight.orders, inflight.id, inflight.kw)
    /\ inflight' = << >>
    /\ queue' = Tail(queue)
    /\ last' = Observed("pass", [ op |-> "pass", id |-> inflight.id,
                                  result |-> "error", again |-> FALSE ])
    /\ UNCHANGED << exch, driver, failNotes, midTick, watch, app >>

NextRace ==
    \/ \E s \in SymbolInputs, i \in IntervalInputs, ema \in EmaInputs,
          sd \in SideInputs, q \in AddQuantities, m \in MarketInputs :
              Add(s, i, ema, sd, q, m)
    \/ \E h \in 1..MaxHandle, s \in SymbolInputs, i \in IntervalInputs, ema \in EmaInputs :
              Bind(h, s, i, ema)
    \/ \E sd \in ManualSides, p \in ManualPrices, q \in ManualQuantities :
              ManualPlace(sd, p, q)
    \/ \E id \in AllIds, ok \in BOOLEAN : Remove(id, ok)
    \/ Tick
    \/ Pass
    \/ UpdateLoads
    \/ UpdateSaves

SpecRace == InitPasses /\ [][NextRace]_vars

(***************************************************************************)
(* The telegram application and its repeating job: post_init when the      *)
(* application starts (738-761), /start_bot (695-715) and /stop_bot         *)
(* (718-735) afterwards.  trailing_jobs counts the jobs named               *)
(* 'trailing_job' that the job queue holds.                                 *)
(***************************************************************************)
\* the module as imported: bot_running = False (line 52), no job
Imported ==
    [ alive |-> TRUE, bot_running |-> FALSE, trailing_jobs |-> 0, post_init |-> FALSE ]

\* run_polling calls post_init once, before it handles any update
PostInit ==
    /\ ~app.post_init
    /\ queue = << >>
    /\ app' = [ app EXCEPT !.post_init = TRUE, !.bot_running = TRUE,
                           !.trailing_jobs = @ + 1 ]
    /\ last' = Observed("cmd", Did("post_init", << >>, "started"))
    /\ UNCHANGED << store, exch, driver, queue, failNotes, midTick, watch, inflight >>

\* a handler of the application runs between two ticks, or while the tick
\* in progress awaits a send: run_trailing_bot awaits only after a pass
\* whose result holds a keyword (655-663) or that raised (669-680)
HandlerRuns ==
    \/ queue = << >>
    \/ /\ last.op = "pass"
       /\ last.result = "escaped" \/ Important(last.result)

\* cmd_start_bot scheduling a job whether or not one is running
StartBotUnchecked ==
    /\ app.post_init
    /\ HandlerRuns
    /\ Arrives
    /\ app' = [ app EXCEPT !.bot_running = TRUE, !.trailing_jobs = @ + 1 ]
    /\ last' = Observed("cmd", Did("start_bot", << >>, "started"))
    /\ UNCHANGED << store, exch, driver, queue, failNotes, watch, inflight >>

StartBot ==
    /\ app.post_init
    /\ HandlerRuns
    /\ Arrives
    /\ IF app.bot_running
       THEN /\ app' = app
            /\ last' = Observed("cmd", Did("start_bot", << >>, "already"))
       ELSE /\ app' = [ app EXCEPT !.bot_running = TRUE, !.trailing_jobs = @ + 1 ]
            /\ last' = Observed("cmd", Did("start_bot", << >>, "started"))
    /\ UNCHANGED << store, exch, driver, queue, failNotes, watch, inflight >>

StopBot ==
    /\ app.post_init
    /\ HandlerRuns
    /\ Arrives
    /\ IF ~app.bot_running
       THEN /\ app' = app
            /\ last' = Observed("cmd", Did("stop_bot", << >>, "not_running"))
       ELSE /\ app' = [ app EXCEPT !.bot_running = FALSE, !.trailing_jobs = 0 ]
            /\ last' = Observed("cmd", Did("stop_bot", << >>, "stopped"))
    /\ UNCHANGED << store, exch, driver, queue, failNotes, watch, inflight >>

NextJobs ==
    \/ PostInit
    \/ StartBot
    \/ StopBot
    \/ \E s \in SymbolInputs, i \in IntervalInputs, ema \in EmaInputs,
          sd \in SideInputs, q \in AddQuantities, m \in MarketInputs :
              Add(s, i, ema, sd, q, m)
    \/ \E h \in 1..MaxHandle, s \in SymbolInputs, i \in IntervalInputs, ema \in EmaInputs :
              Bind(h, s, i, ema)
    \/ \E sd \in ManualSides, p \in ManualPrices, q \in ManualQuantities :
              ManualPlace(sd, p, q)
    \/ Tick
    \/ Pass

\* python telegram_bot.py has just built the application
InitJobs ==
    /\ watch = {"cmd", "pass", "tick"}
    /\ store = << >>
    /\ exch = << >>
    /\ driver = "telegram"
    /\ queue = << >>
    /\ last = Unwatched
    /\ failNotes = [ id \in AllIds |-> 0 ]
    /\ midTick = 0
    /\ inflight = << >>
    /\ app = Imported

SpecJobs == InitJobs /\ [][NextJobs]_vars

(***************************************************************************)
(* The operator's commands with everything the handlers let through: the   *)
(* quick add of handle_message (499-505) and /bind (189-201) take the       *)
(* interval and the quantity as typed.                                      *)
(***************************************************************************)
\* the values of INTERVAL_MAP, src/ema_bot.py:47-57
SupportedIntervals == {"15m", "1h", "4h", "1d", "1w", "1M"}

NextInputs ==
    \/ \E s \in SymbolInputs, i \in TypedIntervals, ema \in EmaInputs,
          sd \in SideInputs, q \in TypedQuantities, m \in MarketInputs :
              Add(s, i, ema, sd, q, m)
    \/ \E h \in 1..MaxHandle, s \in SymbolInputs, i \in TypedIntervals, ema \in EmaInputs :
              Bind(h, s, i, ema)
    \/ \E k \in 1..Len(store), ok \in BOOLEAN : Remove(store[k].id, ok)
    \/ \E sd \in ManualSides, p \in ManualPrices, q \in ManualQuantities :
              ManualPlace(sd, p, q)
    \/ \E h \in 1..MaxHandle : ManualCancel(h)

SpecInputs == InitCommands /\ [][NextInputs]_vars

(***************************************************************************)
(* format_price and format_quantity on floats, src/ema_bot.py:248-286.     *)
(* Amounts and steps are counted in tenths: 3 is the float 0.3, the step 1  *)
(* is '0.1', 5 is '0.5', 10 is '1'.                                         *)
(***************************************************************************)
\* raw amounts 0.0 .. MaxRaw/10
MaxRaw == 20

RawInputs == 0..MaxRaw

\* tickSize / stepSize of the filter: '0.1', '0.5', '1'
StepInputs == {1, 5, 10}

\* x // 0.1 on IEEE-754 doubles is the floor of the quotient of the two
\* binary values; float('0.1') lies above 0.1, and for these x (tenths)
\* float(x/10) lies below (x div 1) * float('0.1'), so the quotient is one
\* less than x: 0.3 // 0.1 = 2.0, 0.5 // 0.1 = 4.0, 1.0 // 0.1 = 9.0.  The
\* steps 0.5 and 1 are binary fractions and divide exactly.
BelowInBinary ==
    {3, 5, 6, 7, 9, 10, 12, 13, 14, 15, 17, 18, 19, 20, 21, 23, 24, 25, 26, 28, 29, 30}

\* x // step, lines 263 and 283
FloorDiv(x, step) ==
    IF step = 1 /\ x \in BelowInBinary THEN (x \div step) - 1 ELSE x \div step

\* (x // step) * step printed with the precision of the step: the product
\* of a whole number and the step prints as that multiple of the step
Quantize(x, step) == FloorDiv(x, step) * step

\* client.format_price(symbol, price) with tickSize tick
FormatsPrice(price, tick) ==
    /\ last' = Observed("quantize",
                  [ op |-> "format_price", id |-> << price, tick >>,
                    result |-> Quantize(price, tick), again |-> FALSE ])
    /\ UNCHANGED << store, exch, driver, queue, failNotes, midTick, watch, inflight, app >>

\* client.format_quantity(symbol, quantity) with stepSize step
FormatsQuantity(quantity, step) ==
    /\ last' = Observed("quantize",
                  [ op |-> "format_quantity", id |-> << quantity, step >>,
                    result |-> Quantize(quantity, step), again |-> FALSE ])
    /\ UNCHANGED << store, exch, driver, queue, failNotes, midTick, watch, inflight, app >>

NextQuantize ==
    \/ \E p \in RawInputs, t \in StepInputs : FormatsPrice(p, t)
    \/ \E q \in RawInputs, s \in StepInputs : FormatsQuantity(q, s)

\* formatting calls observed
InitQuantize == Init({"quantize"})

SpecQuantize == InitQuantize /\ [][NextQuantize]_vars

(***************************************************************************)
(* calculate_ema, src/ema_bot.py:304-348, on the candles the request        *)
(* returned.  A value is the fraction << numerator, denominator >>.         *)
(***************************************************************************)
\* candles in the reply of the klines request
MaxKlines == 5

\* closing prices of the candles
CloseInputs == {10, 13}

\* periods asked for
PeriodInputs == {1, 2, 3}

KlineInputs == UNION { [ 1..n -> CloseInputs ] : n \in 0..MaxKlines }

\* every candle of the reply, the one still forming included
EveryCandle(klines) == klines

\* klines[:-1] when there is more than one candle, lines 329-330
ClosedCandles(klines) ==
    IF Len(klines) > 1 THEN SubSeq(klines, 1, Len(klines) - 1) ELSE klines

RECURSIVE SumOf(_)
\* sum(closes[:period])
SumOf(closes) == IF closes = << >> THEN 0 ELSE Head(closes) + SumOf(Tail(closes))

\* the step of the loop with k = 2 / period
SmoothByPeriod(ema, close, period) ==
    << 2 * close * ema[2] + (period - 2) * ema[1], period * ema[2] >>

\* ema = close * k + ema * (1 - k) with k = 2 / (period + 1), lines 339, 346
Smooth(ema, close, period) ==
    << 2 * close * ema[2] + (period - 1) * ema[1], (period + 1) * ema[2] >>

RECURSIVE Iterate(_, _, _)
\* for close in closes[period:], lines 345-346
Iterate(ema, later, period) ==
    IF later = << >> THEN ema
    ELSE Iterate(Smooth(ema, Head(later), period), Tail(later), period)

\* the value calculate_ema returns for these candles; 0.0 with too few
CalculateEma(klines, period) ==
    LET closes == ClosedCandles(klines)
    IN  IF Len(closes) < period
        THEN << 0, 1 >>
        ELSE Iterate(<< SumOf(SubSeq(closes, 1, period)), period >>,
                     SubSeq(closes, period + 1, Len(closes)), period)

\* client.calculate_ema(symbol, period, interval) with this reply
ComputesEma(klines, period) ==
    /\ last' = Observed("ema",
                  [ op |-> "calculate_ema", id |-> << klines, period >>,
                    result |-> CalculateEma(klines, period), again |-> FALSE ])
    /\ UNCHANGED << store, exch, driver, queue, failNotes, midTick, watch, inflight, app >>

NextEma == \E klines \in KlineInputs, period \in PeriodInputs : ComputesEma(klines, period)

\* indicator computations observed
InitEma == Init({"ema"})

SpecEma == InitEma /\ [][NextEma]_vars

(***************************************************************************)
(* The ticks of a driver over records that were added: every order on the  *)
(* exchange is one a pass placed.                                           *)
(***************************************************************************)
NextBinds ==
    \/ \E s \in SymbolInputs, i \in IntervalInputs, ema \in EmaInputs,
          sd \in SideInputs, q \in AddQuantities, m \in MarketInputs :
              Add(s, i, ema, sd, q, m)
    \/ \E id \in AllIds, ok \in BOOLEAN : Remove(id, ok)
    \/ \E id \in AllIds : Retire(id)
    \/ \E h \in 1..MaxHandle : Fill(h)
    \/ Tick
    \/ Pass

SpecBinds == InitTicks /\ [][NextBinds]_vars /\ WF_vars(Tick) /\ WF_vars(Pass)

(***************************************************************************)
(* Passes at the edge of the threshold, price_diff > self.price_threshold   *)
(* (633) with price_threshold = 0.003 (595): the target is 1000 and the     *)
(* operator's orders rest 3 and 4 away from it.                             *)
(***************************************************************************)
\* the EMA while these passes run
EdgeEmaValues == {1000}

\* prices of the orders the operator places and binds
EdgePrices == {997, 1003, 1004}

NextEdge ==
    \/ \E sd \in ManualSides, p \in EdgePrices, q \in ManualQuantities :
              ManualPlace(sd, p, q)
    \/ \E h \in 1..MaxHandle, s \in SymbolInputs, i \in IntervalInputs, ema \in EmaInputs :
              Bind(h, s, i, ema)
    \/ Tick
    \/ PassAt(EdgeEmaValues)

SpecEdge == InitPasses /\ [][NextEdge]_vars

(***************************************************************************)
(* BinanceClient._create_futures_order, src/ema_bot.py:514-573, with its    *)
(* two steps before the order is sent: the leverage (518-526) and the       *)
(* margin mode (528-533) of the symbol on the account.  The account is      *)
(* [leverage, margin]; the latest call is observed with the account before  *)
(* and after it and the requests it sent.                                   *)
(***************************************************************************)
\* leverage of the record: None when the operator gave none
LeverageInputs == {None, 10, 20}

\* margin_type of the record: "" stands for None, both fail 'if margin_type'
MarginInputs == {"", "CROSSED", "ISOLATED"}

\* the account of a symbol nobody has configured
OpeningAccount == [ leverage |-> 20, margin |-> "CROSSED" ]

\* the account as the latest call left it
Account ==
    IF last.op = "create_futures_order" THEN last.result.account ELSE OpeningAccount

\* lines 518-526: get_leverage, then set_leverage when the values differ;
\* an exception of either is printed and dropped.  got: get_leverage
\* answers ("ok") or raises; accepts: the exchange accepts the change
LeverageStep(account, leverage, got, accepts) ==
    IF leverage = None \/ got = "raise" \/ account.leverage = leverage
    THEN [ account |-> account, sent |-> 0 ]
    ELSE [ account |-> IF accepts THEN [ account EXCEPT !.leverage = leverage ]
                       ELSE account,
           sent |-> 1 ]

\* lines 528-533: set_margin_type whenever a mode is given; set_margin_type
\* returns None when the exchange refuses (429-440), which it does when the
\* mode is already the one asked for
MarginStep(account, margin_type, accepts) ==
    IF margin_type = ""
    THEN [ account |-> account, sent |-> 0 ]
    ELSE [ account |-> IF accepts /\ account.margin # margin_type
                       THEN [ account EXCEPT !.margin = margin_type ]
                       ELSE account,
           sent |-> 1 ]

\* what one call does to the account and which requests it sends
PreSteps(account, leverage, margin_type, got, accepts) ==
    LET lev == LeverageStep(account, leverage, got, accepts)
        mar == MarginStep(lev.account, margin_type, accepts)
    IN  [ before |-> account, account |-> mar.account,
          set_leverage |-> lev.sent, set_margin_type |-> mar.sent ]

\* create_order(..., market_type='futures') for a record with this leverage
\* and margin mode; the order is sent after the two steps (543-573)
CreatesFuturesOrder(leverage, margin_type, got, accepts, side, price, quantity, placeOut) ==
    LET order == [ status |-> "NEW", price |-> FormatPrice(price), side |-> side,
                   qty |-> FormatQuantity(quantity), owner |-> << >> ]
    IN  /\ placeOut \in PlaceOuts(exch)
        /\ exch' = IF placeOut \in {"ok", "landed"} THEN Append(exch, order) ELSE exch
        /\ last' = Observed("futures",
                      [ op |-> "create_futures_order",
                        id |-> << leverage, margin_type >>,
                        result |-> PreSteps(Account, leverage, margin_type, got, accepts),
                        again |-> placeOut = "ok" ])
        /\ UNCHANGED << store, driver, queue, failNotes, midTick, watch, inflight, app >>

NextFutures ==
    \E leverage \in LeverageInputs, margin_type \in MarginInputs,
       got \in {"ok", "raise"}, accepts \in BOOLEAN,
       side \in ManualSides, price \in ManualPrices, quantity \in ManualQuantities,
       placeOut \in {"ok", "fail", "landed"} :
           CreatesFuturesOrder(leverage, margin_type, got, accepts,
                               side, price, quantity, placeOut)

\* calls of _create_futures_order observed
InitFutures == Init({"futures"})

SpecFutures == InitFutures /\ [][NextFutures]_vars


(***************************************************************************)
(* The updates the telegram application dispatches, src/telegram_bot.py     *)
(* main (764-800): every update carries the chat it comes from, and each    *)
(* handler decides for itself whether it looks at it.                       *)
(***************************************************************************)
\* the chat of the operator (TELEGRAM_CHAT_ID) and any other chat
AUTHORIZED_CHAT_ID == "operator"

ChatInputs == {AUTHORIZED_CHAT_ID, "stranger"}

\* is_authorized, lines 55-57
is_authorized(chat_id) == chat_id = AUTHORIZED_CHAT_ID

\* the handlers that change something, by the update that reaches them: a
\* command, a text message, or the data of a button (bindorder_, remove_)
UpdateKinds == {"text", "/bind", "bindorder_", "/remove", "remove_", "/start_bot", "/stop_bot"}

\* updates: the chat, the handler, and what the command or the button
\* names: an order on the exchange (h) and a tracking id (id); cancel_ok
\* tells whether do_remove_order's cancel call succeeds
UpdateInputs ==
    [ chat : ChatInputs, kind : UpdateKinds, h : 1..MaxHandle,
      id : { AddId("futures", "BTCUSDT", "4h", 21, "BUY"),
             BindId("BTCUSDT", "4h", 21, "BUY") },
      cancel_ok : BOOLEAN ]

Untouched(st, ex, ap) == [ store |-> st, exch |-> ex, app |-> ap ]

\* do_remove_order, lines 575-595
DoRemoveOrder(st, ex, ap, u) ==
    [ store |-> Without(st, u.id), exch |-> CancelBound(ex, st, u.id, u.cancel_ok),
      app |-> ap ]

\* the store, the exchange and the driver after the handler of u has run
Handled(st, ex, ap, u) ==
    CASE u.kind = "text" ->
            \* handle_message, 459-520: the text that completes an add
            IF is_authorized(u.chat)
            THEN [ Untouched(st, ex, ap) EXCEPT
                     !.store = AddOrder(st, "BTCUSDT", "4h", 21, "BUY", 1, "futures") ]
            ELSE Untouched(st, ex, ap)
      [] u.kind = "/bind" ->
            \* cmd_bind, 173-231: binds when the symbol has one open order
            IF is_authorized(u.chat) /\ OpenOrders(ex) = {u.h}
            THEN [ Untouched(st, ex, ap) EXCEPT
                     !.store = BindOrder(st, ex, u.h, "BTCUSDT", "4h", 21) ]
            ELSE Untouched(st, ex, ap)
      [] u.kind = "bindorder_" ->
            \* bind_callback, 303-333
            IF u.h \in OpenOrders(ex)
            THEN [ Untouched(st, ex, ap) EXCEPT
                     !.store = BindOrder(st, ex, u.h, "BTCUSDT", "4h", 21) ]
            ELSE Untouched(st, ex, ap)
      [] u.kind = "/remove" ->
            \* cmd_remove, 549-572
            IF is_authorized(u.chat)
            THEN DoRemoveOrder(st, ex, ap, u)
            ELSE Untouched(st, ex, ap)
      [] u.kind = "remove_" ->
            \* remove_callback, 598-605
            DoRemoveOrder(st, ex, ap, u)
      [] u.kind = "/start_bot" ->
            \* cmd_start_bot, 695-715
            IF is_authorized(u.chat) /\ ~ap.bot_running
            THEN [ Untouched(st, ex, ap) EXCEPT
                     !.app = [ ap EXCEPT !.bot_running = TRUE, !.trailing_jobs = @ + 1 ] ]
            ELSE Untouched(st, ex, ap)
      [] OTHER ->
            \* cmd_stop_bot, 718-735
            IF is_authorized(u.chat) /\ ap.bot_running
            THEN [ Untouched(st, ex, ap) EXCEPT
                     !.app = [ ap EXCEPT !.bot_running = FALSE, !.trailing_jobs = 0 ] ]
            ELSE Untouched(st, ex, ap)

\* the application handles the update u
Receives(u) ==
    LET r == Handled(store, exch, app, u)
    IN  /\ app.post_init
        /\ HandlerRuns
        /\ Arrives
        /\ Len(r.store) <= MaxStore
        /\ store' = r.store
        /\ exch' = r.exch
        /\ app' = r.app
        /\ last' = Observed("cmd", Did(u.kind, u.id, u.chat))
        /\ UNCHANGED << driver, queue, failNotes, watch, inflight >>

NextUpdates ==
    \/ PostInit
    \/ \E u \in UpdateInputs : Receives(u)
    \/ \E sd \in ManualSides, p \in ManualPrices, q \in ManualQuantities :
              ManualPlace(sd, p, q)
    \/ Tick
    \/ Pass

SpecUpdates == InitJobs /\ [][NextUpdates]_vars


(***************************************************************************)
(* Claims.                                                                 *)
(***************************************************************************)
\* the open orders a pass placed for this id
EngineOpen(ex, id) == { h \in OpenOrders(ex) : ex[h].owner = id }

\* C1: whatever passes have run and whatever has failed in them, the
\* exchange holds at most one open order that the engine placed for one
\* tracking id.
C1_AtMostOneEngineOrder ==
    \A id \in AllIds : Cardinality(EngineOpen(exch, id)) <= 1


\* the record the store holds for this id
Rec(orders, id) == orders[FirstIdx(orders, id)]

\* the pass about to run works on the record as the store holds it
Fresh(cfg) == HasId(store, cfg.id) /\ Rec(store, cfg.id) = cfg

\* the inputs were gathered and no save_orders call of the pass raises
Undisturbed(ch) == ch.gather = "ok" /\ ch.wfail = "none"

\* the pass takes the Replace path, its cancel succeeds and its place fails
ReplacePlaceFails(ex, cfg, ch) ==
    /\ Undisturbed(ch)
    /\ OurOrder(ex, cfg)
    /\ ch.ema # 0
    /\ Abs(ex[cfg.binance_order_id].price - ch.ema) * ThresholdDen > ThresholdNum * ch.ema
    /\ ch.mid = "none"
    /\ ch.cancelOut = "ok"
    /\ ch.placeOut # "ok"

\* C2: a Replace whose cancel succeeds and whose place fails, on a record
\* not yet flagged, ends with the handle None, notified_error TRUE and one
\* failure message for the id; a next pass whose Create fails too sends no
\* further failure message.  Under both drivers.
C2_ReplaceFailureNotifiedOnce ==
    queue # << >> =>
        LET cfg == Head(queue)
        IN  \A ch \in PassChoices(exch, cfg) :
                (Fresh(cfg) /\ ~cfg.notified_error /\ ReplacePlaceFails(exch, cfg, ch)) =>
                    LET c == ProcessOrder(store, exch, cfg, ch)
                        after == Rec(c.store, cfg.id)
                    IN  /\ after.binance_order_id = None
                        /\ after.notified_error
                        /\ FailureNotes(driver, c) = 1
                        /\ \A ch2 \in PassChoices(c.exch, after) :
                              (Undisturbed(ch2) /\ ch2.placeOut # "ok") =>
                                  FailureNotes(driver,
                                      ProcessOrder(c.store, c.exch, after, ch2)) = 0

\* the bound order is not open and its status lookup returns FILLED
MissingFilled(ex, cfg, ch) ==
    /\ Undisturbed(ch)
    /\ cfg.binance_order_id \in 1..Len(ex)
    /\ ex[cfg.binance_order_id].status = "FILLED"
    /\ ch.statusOut = "ok"

\* C3: when the bound order is not open and its status is FILLED, the pass
\* removes the record from the store, sends exactly one fill message for
\* the id and calls neither place nor cancel; the id is not loaded by any
\* later tick.
C3_FillRemovesAndNotifiesOnce ==
    queue # << >> =>
        LET cfg == Head(queue)
        IN  \A ch \in PassChoices(exch, cfg) :
                (Fresh(cfg) /\ MissingFilled(exch, cfg, ch)) =>
                    LET c == ProcessOrder(store, exch, cfg, ch)
                    IN  /\ ~HasId(ActiveOrders(c.store), cfg.id)
                        /\ FillNotes(driver, c) = 1
                        /\ c.place = 0
                        /\ c.cancel = 0

\* the bound order is not open, its status is not FILLED and the new
\* create_order fails
MissingRecreateFails(ex, cfg, ch) ==
    /\ Undisturbed(ch)
    /\ cfg.binance_order_id \in 1..Len(ex)
    /\ ex[cfg.binance_order_id].status = "CANCELED"
    /\ ch.placeOut = "fail"

\* C4: after a pass the stored handle of a record is None or open on the
\* exchange; in particular a bound order that is gone (CANCELED, EXPIRED or
\* unknown) and whose re-creation fails does not keep its old handle.
C4_NoStaleHandle ==
    queue # << >> =>
        LET cfg == Head(queue)
        IN  \A ch \in PassChoices(exch, cfg) :
                (Fresh(cfg) /\ MissingRecreateFails(exch, cfg, ch)) =>
                    LET c == ProcessOrder(store, exch, cfg, ch)
                        h == Rec(c.store, cfg.id).binance_order_id
                    IN  h = None \/ h \in OpenOrders(c.exch)

\* the bound order is open and within the threshold of this target
BoundWithin(ex, cfg, ch) ==
    /\ ch.gather = "ok"
    /\ OurOrder(ex, cfg)
    /\ ch.ema # 0
    /\ Abs(ex[cfg.binance_order_id].price - ch.ema) * ThresholdDen <= ThresholdNum * ch.ema

\* two passes in a row on a bound, open order within the threshold call
\* neither place nor cancel, and the second leaves the store as the first
\* left it; firstSaves: only when no save_orders call of the first raises
TwicePassIdempotent(firstSaves) ==
    queue # << >> =>
        LET cfg == Head(queue)
        IN  \A ch \in PassChoices(exch, cfg) :
                (/\ Fresh(cfg)
                 /\ BoundWithin(exch, cfg, ch)
                 /\ firstSaves => ch.wfail = "none") =>
                    LET c == ProcessOrder(store, exch, cfg, ch)
                        after == Rec(c.store, cfg.id)
                    IN  /\ c.place = 0 /\ c.cancel = 0 /\ c.exch = exch
                        /\ \A ch2 \in PassChoices(c.exch, after) :
                              (BoundWithin(c.exch, after, ch2) /\ ch2.ema = ch.ema) =>
                                  LET c2 == ProcessOrder(c.store, c.exch, after, ch2)
                                  IN  /\ c2.place = 0 /\ c2.cancel = 0
                                      /\ c2.exch = exch
                                      /\ c2.store = c.store

C6_FailureKeepsRestOfTick ==
    queue # << >> =>
        \A ch \in PassChoices(exch, Head(queue)) :
            Remaining(driver, queue, ProcessOrder(store, exch, Head(queue), ch))
                = Tail(queue)

\* C7: between two successful passes of an id at most one failure message
\* is sent for it, however many passes fail; and a successful pass leaves
\* notified_error FALSE.
C7_OneFailureNotePerFault ==
    /\ \A id \in AllIds : failNotes[id] <= 1
    /\ queue # << >> =>
          LET cfg == Head(queue)
          IN  \A ch \in PassChoices(exch, cfg) :
                  LET c == ProcessOrder(store, exch, cfg, ch)
                  IN  (~c.raised /\ c.result \in SuccessResults /\ HasId(c.store, cfg.id))
                          => ~Rec(c.store, cfg.id).notified_error

\* C8: an add_order call rejected with a validation error (unsupported
\* EMA, side not BUY or SELL, unknown market type, id already present)
\* leaves the store exactly as it was.
C8_RejectedAddLeavesStore ==
    [][(last'.op = "add" /\ last'.result # "ok") => store' = store]_vars

\* an add was rejected while the store held a record
C8_Witness ==
    /\ last.op = "add"
    /\ last.result \in {"bad_ema", "bad_side", "bad_market", "duplicate"}
    /\ store # << >>

Rebound(before, after, ex) ==
    /\ after.binance_order_id \in OpenOrders(ex)
    /\ after.quantity = ex[after.binance_order_id].qty
    /\ after = [ before EXCEPT !.binance_order_id = after.binance_order_id,
                               !.quantity = after.quantity ]

C10_UniqueIds ==
    \A i, j \in 1..Len(store) : store[i].id = store[j].id => i = j

\* the store is full and the latest add or bind met an id it already held
C10_Witness ==
    /\ Len(store) = MaxStore
    /\ last.op \in {"add", "bind"}
    /\ last.result \in {"duplicate", "rebound"}

\* what a record tracks: (market, symbol, interval, EMA period, side)
Intent(o) == << o.market_type, o.symbol, o.interval, o.ema, o.side >>

\* C11: an add and a bind for the same (market, symbol, interval, EMA
\* period, side) yield the same id, so the store never holds two records
\* for one such tuple.
C11_OneRecordPerIntent ==
    \A i, j \in 1..Len(store) : Intent(store[i]) = Intent(store[j]) => i = j

\* C12: no failure in a tick, in a pass or in loading the store, ends the
\* driver: whatever has happened, the driver starts a tick again.
C12_DriverKeepsTicking == []<>(last.op = "tick")

\* a tick has started after a pass of an earlier tick failed
C12_Witness ==
    /\ last.op = "tick"
    /\ \E k \in 1..Len(store) : store[k].notified_error

\* C13: when update_order on one id interleaves with an operator's add,
\* bind or remove on another id, both effects are in the store afterwards:
\* the save of update_order changes no record but the one with its id.
C13_WritesToOtherIdsKept ==
    [][(inflight # << >> /\ inflight' = << >>) =>
          Without(store', inflight.id) = Without(store, inflight.id)]_vars


\* C14: after any sequence of post_init, /start_bot and /stop_bot the job
\* queue holds at most one repeating job, and it holds one exactly when
\* bot_running is set.
C14_AtMostOneJob ==
    /\ app.trailing_jobs <= 1
    /\ app.bot_running <=> app.trailing_jobs = 1

\* /start_bot has scheduled a job again after a /stop_bot removed the one
\* of post_init, with records in the store for the new job to pass
C14_Witness ==
    /\ last.op = "start_bot"
    /\ last.result = "started"
    /\ app.trailing_jobs = 1
    /\ Len(store) = MaxStore

\* C15: when calculate_ema has no value (it returns 0.0 with fewer candles
\* than the period and when the candle fetch fails), the pass sends no
\* place and no cancel request and leaves the handle of the record as it
\* was, whether the record is unbound, bound and open, or bound and missing.
C15_NoIndicatorSkipsPass ==
    queue # << >> /\ Fresh(Head(queue)) =>
        \A ch \in PassChoices(exch, Head(queue)) :
            ch.gather = "ok" /\ ch.ema = 0 =>
                LET cfg == Head(queue)
                    c == ProcessOrder(store, exch, cfg, ch)
                IN  /\ c.place = 0
                    /\ c.cancel = 0
                    /\ HasId(c.store, cfg.id) =>
                          Rec(c.store, cfg.id).binance_order_id = cfg.binance_order_id

\* C16: a tick works on the store as it is when the tick starts: its passes
\* are for the active records the store holds then, so a record removed
\* before the tick has none and a record added or bound before the tick has
\* one; the records loaded leave the tick one by one, each by its own pass.
C16_TickPassesWhatStoreHolds ==
    [][/\ (queue = << >> /\ queue' # << >>) => queue' = ActiveOrders(store)
       /\ (queue # << >> /\ queue' # queue) => queue' = Tail(queue)]_vars

\* C17: the records a tick hands to process_order are records with status
\* 'active': a record of the store with another status is not among them.
C17_OnlyActivePassed ==
    \A k \in 1..Len(queue) : queue[k].status = "active"

\* a tick has just loaded a store that holds a paused record beside an
\* active one
C17_Witness ==
    /\ last.op = "tick"
    /\ queue # << >>
    /\ \E k \in 1..Len(store) : store[k].status = "paused"

\* what a pass leaves behind, apart from the messages delivered
Outcome(c) ==
    [ store |-> c.store, exch |-> c.exch, place |-> c.place, cancel |-> c.cancel,
      result |-> c.result, raised |-> c.raised ]

\* C18: the outcome of a pass does not depend on the delivery of its
\* notifications: with every other decision of the environment the same,
\* the pass leaves the same store, sends the same place and cancel
\* requests and returns the same result whether every message is
\* delivered or the delivery of every message fails.
C18_OutcomeIgnoresDelivery ==
    queue # << >> =>
        \A ch \in PassChoices(exch, Head(queue)) :
            LET cfg == Head(queue)
                told == ProcessOrder(store, exch, cfg, [ ch EXCEPT !.notify = "ok" ])
                lost == ProcessOrder(store, exch, cfg, [ ch EXCEPT !.notify = "fail" ])
            IN  /\ Outcome(told) = Outcome(lost)
                /\ lost.delivered = 0

\* a pass is about to run in which an order is placed and a message is
\* sent, delivered in one run and lost in the other
C18_Witness ==
    /\ queue # << >>
    /\ \E ch \in PassChoices(exch, Head(queue)) :
          LET cfg == Head(queue)
              told == ProcessOrder(store, exch, cfg, [ ch EXCEPT !.notify = "ok" ])
              lost == ProcessOrder(store, exch, cfg, [ ch EXCEPT !.notify = "fail" ])
          IN  /\ told.delivered > 0
              /\ lost.delivered = 0
              /\ lost.place > 0
              /\ lost.store # store

\* C19: every record of the store, after any adds and binds, has its EMA
\* period in {21, 55, 100, 200}, its side BUY or SELL, an interval that
\* INTERVAL_MAP supports and a quantity above 0.
C19_RecordsWellFormed ==
    \A k \in 1..Len(store) :
        /\ store[k].ema \in SUPPORTED_EMA
        /\ store[k].side \in {"BUY", "SELL"}
        /\ store[k].interval \in SupportedIntervals
        /\ store[k].quantity > 0

\* C20: for every raw amount >= 0 and every step > 0, format_price and
\* format_quantity return floor(raw / step) * step: a multiple of the
\* step, not above raw, less than one step below raw, and 0 for raw 0.
C20_QuantizeIsFloor ==
    last.op \in {"format_price", "format_quantity"} =>
        LET raw == last.id[1]
            step == last.id[2]
        IN  /\ last.result = (raw \div step) * step
            /\ last.result % step = 0
            /\ last.result <= raw
            /\ raw - last.result < step
            /\ raw = 0 => last.result = 0

\* fractions: sum, product, equality
FrAdd(a, b) == << a[1] * b[2] + b[1] * a[2], a[2] * b[2] >>

FrMul(a, b) == << a[1] * b[1], a[2] * b[2] >>

FrEq(a, b) == a[1] * b[2] = b[1] * a[2]

RECURSIVE EmaAfter(_, _, _)
\* the reference: the mean of the first period closes, then for each later
\* close c in order c * k + ema * (1 - k) with k = 2 / (period + 1)
EmaAfter(closes, n, period) ==
    IF n = period
    THEN << SumOf(SubSeq(closes, 1, period)), period >>
    ELSE FrAdd(FrMul(<< closes[n], 1 >>, << 2, period + 1 >>),
               FrMul(EmaAfter(closes, n - 1, period), << period - 1, period + 1 >>))

\* C21: for closes of length at least period, calculate_ema returns the
\* value of the reference recurrence: seeded with the mean of the first
\* period closes, then ema' = c * k + ema * (1 - k), k = 2 / (period + 1),
\* for each later close in order.
C21_EmaIsRecurrence ==
    last.op = "calculate_ema" =>
        LET closes == ClosedCandles(last.id[1])
            period == last.id[2]
        IN  Len(closes) >= period =>
                FrEq(last.result, EmaAfter(closes, Len(closes), period))

\* an EMA of period 3 over closes that differ, with a close after the seed
C21_Witness ==
    /\ last.op = "calculate_ema"
    /\ last.id[2] = 3
    /\ Len(ClosedCandles(last.id[1])) > 3
    /\ ClosedCandles(last.id[1])[1] # ClosedCandles(last.id[1])[4]
    /\ last.result[1] # 0

\* the pass takes the Replace path: the bound order is open and further
\* from the target than the threshold
InReplace(ex, cfg, ch) ==
    /\ ch.gather = "ok"
    /\ OurOrder(ex, cfg)
    /\ ch.ema # 0
    /\ ExceedsThreshold(ex[cfg.binance_order_id].price, ch.ema)

\* cancel_order raises: the order is no longer open, or another error
CancelFails(ex, cfg, ch) ==
    InReplace(ex, cfg, ch) /\ (ch.mid # "none" \/ ch.cancelOut # "ok")

\* the cancel met an unknown order and the status lookup says FILLED
FoundFilled(ch) == ch.mid = "fill" /\ ch.statusOut = "ok"

\* C22: in a Replace the place request is sent only after the cancel of
\* the old order succeeded in the same pass; when the cancel fails, with an
\* unknown order whose status is not FILLED or with any other error, the
\* pass sends no place request and leaves the store, so the handle and
\* notified_error of the record, as it was.
C22_PlaceOnlyAfterCancel ==
    queue # << >> /\ Fresh(Head(queue)) =>
        \A ch \in PassChoices(exch, Head(queue)) :
            LET cfg == Head(queue)
                c == ProcessOrder(store, exch, cfg, ch)
            IN  InReplace(exch, cfg, ch) =>
                    /\ c.place > 0 =>
                          /\ ~CancelFails(exch, cfg, ch)
                          /\ c.cancel = 1
                          /\ c.exch[cfg.binance_order_id].status = "CANCELED"
                    /\ (CancelFails(exch, cfg, ch) /\ ~FoundFilled(ch)) =>
                          /\ c.result = "cancel_failed"
                          /\ c.place = 0
                          /\ c.store = store

\* a flagged record is due for a Replace; its cancel can fail with another
\* error, and can succeed and be followed by a place
C22_Witness ==
    /\ queue # << >>
    /\ Fresh(Head(queue))
    /\ Head(queue).notified_error
    /\ \E ch \in PassChoices(exch, Head(queue)) :
          /\ CancelFails(exch, Head(queue), ch)
          /\ ~FoundFilled(ch)
          /\ ch.cancelOut = "error"
    /\ \E ch \in PassChoices(exch, Head(queue)) :
          /\ InReplace(exch, Head(queue), ch)
          /\ ProcessOrder(store, exch, Head(queue), ch).place = 1

\* C23: a cancel failure in a Replace is notified or suppressed, never
\* dropped: on a record not yet flagged the pass sends a failure message
\* and sets notified_error; on a flagged record it sends none.
C23_CancelFailureNotifiedOrSuppressed ==
    queue # << >> /\ Fresh(Head(queue)) =>
        \A ch \in PassChoices(exch, Head(queue)) :
            LET cfg == Head(queue)
                c == ProcessOrder(store, exch, cfg, ch)
            IN  (CancelFails(exch, cfg, ch) /\ ~FoundFilled(ch)) =>
                    IF cfg.notified_error
                    THEN FailureNotes(driver, c) = 0
                    ELSE /\ FailureNotes(driver, c) = 1
                         /\ Rec(c.store, cfg.id).notified_error

\* C24: in a Replace whose cancel meets an unknown order, when the status
\* lookup returns FILLED the record is removed from the store, one fill
\* message is sent and no place request is made; when the status is
\* anything else or the lookup fails, the store is left as it was.
C24_UnknownOrderFilledRetires ==
    queue # << >> /\ Fresh(Head(queue)) =>
        \A ch \in PassChoices(exch, Head(queue)) :
            LET cfg == Head(queue)
                c == ProcessOrder(store, exch, cfg, ch)
            IN  (CancelFails(exch, cfg, ch) /\ Undisturbed(ch) /\ ch.mid # "none") =>
                    IF FoundFilled(ch)
                    THEN /\ ~HasId(c.store, cfg.id)
                         /\ FillNotes(driver, c) = 1
                         /\ c.place = 0
                    ELSE c.store = store

\* the Replace in which cancel_order and create_order both return and no
\* save_orders call raises
ReplaceSucceeds(ex, cfg, ch) ==
    /\ InReplace(ex, cfg, ch)
    /\ Undisturbed(ch)
    /\ ch.mid = "none"
    /\ ch.cancelOut = "ok"
    /\ ch.placeOut = "ok"

CreateSucceeds(cfg, ch) ==
    /\ cfg.binance_order_id = None
    /\ Undisturbed(ch)
    /\ ch.ema # 0
    /\ ch.placeOut = "ok"

\* such a pass binds the record to the order create_order returned, with
\* notified_error False and one order-created message and no other
CreateBinds ==
    queue # << >> /\ Fresh(Head(queue)) =>
        \A ch \in PassChoices(exch, Head(queue)) :
            LET cfg == Head(queue)
                c == ProcessOrder(store, exch, cfg, ch)
                after == Rec(c.store, cfg.id)
            IN  CreateSucceeds(cfg, ch) =>
                    /\ c.result = "created"
                    /\ c.place = 1 /\ c.cancel = 0
                    /\ after.binance_order_id = Len(c.exch)
                    /\ after.binance_order_id \in OpenOrders(c.exch)
                    /\ ~after.notified_error
                    /\ c.created = 1
                    /\ c.updated = 0
                    /\ FailureNotes(driver, c) = 0 /\ FillNotes(driver, c) = 0

\* the store holds an active record with this id and no handle
UnboundActive(id) ==
    /\ HasId(store, id)
    /\ Rec(store, id).binance_order_id = None
    /\ Rec(store, id).status = "active"

\* the latest tick loaded the store and the latest pass did not fail
GatewayWorks ==
    /\ last.op = "tick" => last.result = "loaded"
    /\ last.op = "pass" => last.result \in {"created", "updated", "within", "filled"}

MissingNotFilled(ex, cfg, ch) ==
    /\ Undisturbed(ch)
    /\ cfg.binance_order_id # None
    /\ ~OurOrder(ex, cfg)
    /\ OrderStatus(Context(store, ex), ch, cfg.binance_order_id) # "FILLED"

Deviation(order_price, target) ==
    LET d == Abs(order_price - target) * 1000
    IN  CASE d > 3 * target -> "above"
          [] d = 3 * target -> "equal"
          [] OTHER -> "below"

C29_OnePlaceOneCancelPerPass ==
    queue # << >> =>
        \A ch \in PassChoices(exch, Head(queue)) :
            LET c == ProcessOrder(store, exch, Head(queue), ch)
            IN  /\ c.place <= 1
                /\ c.cancel <= 1
                /\ Len(c.exch) <= Len(exch) + 1

\* a pass is due in which the place request can fail after the cancel
\* succeeded, and in which the cancel can fail
C29_Witness ==
    /\ queue # << >>
    /\ \E ch \in PassChoices(exch, Head(queue)) :
          LET c == ProcessOrder(store, exch, Head(queue), ch)
          IN  c.result = "replace_failed" /\ c.place = 1 /\ c.cancel = 1
    /\ \E ch \in PassChoices(exch, Head(queue)) :
          LET c == ProcessOrder(store, exch, Head(queue), ch)
          IN  c.result = "cancel_failed" /\ c.cancel = 1


\* C30: a pass whose inputs cannot be gathered (the indicator, the live
\* price or the open-orders fetch raises) sends no place and no cancel
\* request and leaves the exchange alone; in the Store it changes nothing
\* but errorNotified of the record processed, which it sets to true when it
\* was false and the write goes through: the handle of that record and
\* every other record are as they were.
C30_AbortedPassOnlyFlags ==
    queue # << >> =>
        \A ch \in PassChoices(exch, Head(queue)) :
            ch.gather = "raise" =>
                LET cfg == Head(queue)
                    c == ProcessOrder(store, exch, cfg, ch)
                IN  /\ c.place = 0
                    /\ c.cancel = 0
                    /\ c.exch = exch
                    /\ Len(c.store) = Len(store)
                    /\ \A i \in 1..Len(store) :
                          \/ c.store[i] = store[i]
                          \/ /\ store[i].id = cfg.id
                             /\ c.store[i] = [ store[i] EXCEPT !.notified_error = TRUE ]
                    /\ (Fresh(cfg) /\ ch.wfail = "none") =>
                          /\ Rec(c.store, cfg.id).notified_error
                          /\ Rec(c.store, cfg.id).binance_order_id = cfg.binance_order_id

\* a pass is due on a bound, unflagged record beside another record, and
\* gathering its inputs can fail: the pass then flags the record
C30_Witness ==
    /\ queue # << >>
    /\ Fresh(Head(queue))
    /\ Len(store) = 2
    /\ Head(queue).binance_order_id # None
    /\ ~Head(queue).notified_error
    /\ \E ch \in PassChoices(exch, Head(queue)) :
          /\ ch.gather = "raise"
          /\ ch.wfail = "none"
          /\ ProcessOrder(store, exch, Head(queue), ch).store # store


\* C31: a Replace that leaves the intent with no open order (the cancel
\* succeeded, the place failed) sends a failure message in that pass also
\* when errorNotified is already true because of an unrelated fault: here
\* the record is unflagged, a first pass fails while gathering its inputs
\* and flags it, and the next pass is the failing Replace.  A message of
\* the driver about the result counts as well.
C31_OrphaningReplaceIsReported ==
    queue # << >> =>
        LET cfg == Head(queue)
        IN  \A ch \in PassChoices(exch, cfg) :
                (/\ Fresh(cfg)
                 /\ ~cfg.notified_error
                 /\ OurOrder(exch, cfg)
                 /\ ch.gather = "raise"
                 /\ ch.wfail = "none") =>
                    LET c == ProcessOrder(store, exch, cfg, ch)
                        after == Rec(c.store, cfg.id)
                    IN  \A ch2 \in PassChoices(c.exch, after) :
                            ReplacePlaceFails(c.exch, after, ch2) =>
                                FailureNotes(driver,
                                    ProcessOrder(c.store, c.exch, after, ch2)) >= 1


\* C32: once the exchange order that backs a record has filled, no pass
\* places a replacement for it, also when the status lookup of the pass
\* returns no result; the pass retires the record or leaves it for a later
\* tick.
C32_FilledIsNotReplaced ==
    queue # << >> =>
        LET cfg == Head(queue)
        IN  \A ch \in PassChoices(exch, cfg) :
                (/\ Fresh(cfg)
                 /\ cfg.binance_order_id \in 1..Len(exch)
                 /\ exch[cfg.binance_order_id].status = "FILLED") =>
                    LET c == ProcessOrder(store, exch, cfg, ch)
                    IN  /\ c.place = 0
                        /\ c.exch = exch
                        /\ HasId(c.store, cfg.id) =>
                              Rec(c.store, cfg.id).binance_order_id = cfg.binance_order_id


\* C33: whatever adds, binds and passes have run, no two records of the
\* store hold the same handle (binance_order_id other than None).
C33_HandlesDistinct ==
    \A i, j \in 1..Len(store) :
        (i # j /\ store[i].binance_order_id # None) =>
            store[i].binance_order_id # store[j].binance_order_id


\* C34: a pass never re-inserts a record: every step that ends a pass
\* (the queue of the tick gets shorter) leaves the store with no id it did
\* not hold before the step, so a record the operator removed while the
\* pass was under way stays removed.
C34_PassNeverReinserts ==
    [][ (queue # << >> /\ queue' # queue) => Ids(store') \subseteq Ids(store) ]_vars


\* C35: when a pass that placed an order has ended, some record of the
\* store holds the handle of that order; in particular a pass on a record
\* that the operator removed after the tick loaded its snapshot leaves no
\* newly placed order without a record.  Taken for the passes that end in
\* success (order created or order updated).
C35_PlacedOrderIsTracked ==
    [][ (/\ queue # << >>
         /\ queue' # queue
         /\ last'.op = "pass"
         /\ last'.result \in {"created", "updated"}) =>
            \A h \in (Len(exch) + 1)..Len(exch') :
                \E i \in 1..Len(store') : store'[i].binance_order_id = h ]_vars


\* C36: in the telegram driver bot_running is set exactly when a job named
\* 'trailing_job' is scheduled; /start_bot while running and /stop_bot
\* while stopped change nothing; and while bot_running is not set (before
\* post_init, and from a /stop_bot to the next /start_bot) no tick and no
\* pass starts.
C36_StartStopConsistent ==
    /\ [](app.bot_running <=> app.trailing_jobs > 0)
    /\ [][ (/\ last' # last
            /\ \/ last'.op = "start_bot" /\ last'.result = "already"
               \/ last'.op = "stop_bot" /\ last'.result = "not_running") =>
               /\ app' = app
               /\ store' = store
               /\ queue' = queue ]_vars
    /\ [][ ~app.bot_running => queue' = queue ]_vars


\* C37: the value calculate_ema returns does not depend on the candle that
\* is still forming: for a reply of more than one candle, the same reply
\* with any other close in its last candle gives the same value.
C37_FormingCandleIgnored ==
    (last.op = "calculate_ema" /\ Len(last.id[1]) > 1) =>
        LET klines == last.id[1]
            period == last.id[2]
        IN  \A close \in CloseInputs :
                CalculateEma([ klines EXCEPT ![Len(klines)] = close ], period)
                    = last.result

\* an EMA of period 2 over four candles, the last of which closes away
\* from the one before it, with a closed candle after the seed
C37_Witness ==
    /\ last.op = "calculate_ema"
    /\ last.id[2] = 2
    /\ Len(last.id[1]) = 4
    /\ last.id[1][4] # last.id[1][3]
    /\ last.result[1] # 0


\* C38: the two steps before a futures order are idempotent: no
\* set-leverage request is sent when the account's leverage is already the
\* one of the record, and no set-margin-mode request when the account's
\* margin mode is already the one of the record.
C38_PreStepsIdempotent ==
    last.op = "create_futures_order" =>
        LET leverage == last.id[1]
            margin_type == last.id[2]
            r == last.result
        IN  /\ (leverage # None /\ r.before.leverage = leverage) => r.set_leverage = 0
            /\ (margin_type # "" /\ r.before.margin = margin_type) => r.set_margin_type = 0


\* C39: an update from a chat other than the authorized one, whatever
\* handler it reaches (a command, or a remove_ or bindorder_ button),
\* changes no record of the store, neither starts nor stops the driver,
\* and cancels nothing on the exchange.
C39_StrangerChangesNothing ==
    \A u \in UpdateInputs :
        ~is_authorized(u.chat) =>
            Handled(store, exch, app, u) = Untouched(store, exch, app)

============================================================================
